---- MODULE Spec2Model ----
(***************************************************************************)
(* The client-side session manager (store/auth-store.ts) and the movie     *)
(* API helpers (lib/api.ts) of the movie-discovery front end, as state     *)
(* machines.                                                               *)
(*                                                                         *)
(* Strings whose characters matter (emails, names: they are case-folded    *)
(* and base64-encoded) are sequences of UTF-16 code units.  Strings that   *)
(* are only compared or concatenated (passwords, messages, ids, query      *)
(* terms) are TLA+ strings.  A token string is the sequence of its         *)
(* dot-free segments, which is what token.split(".") returns.              *)
(***************************************************************************)
EXTENDS Integers, Sequences, FiniteSets, TLC

VARIABLES
    now,             \* Date.now(), milliseconds
    MOCK_USERS,      \* own properties of the account object: key -> account
    user,            \* store field user
    isAuthenticated, \* store field isAuthenticated
    token,           \* store field token
    storage,         \* persisted envelope under the key "auth-storage"
    pending,         \* login/register calls waiting in their 800 ms timer, FIFO
    cache,           \* AsyncStorage items of the API helpers: key -> stored item
    inflight,        \* HTTP requests sent and not yet answered
    ret,             \* the call or continuation that just ran: its input and what
                     \* it handed to its caller; NoRet after any other step
    form,            \* state of the LoginForm component
    carousel         \* state of the MovieCarousel component

authVars == <<MOCK_USERS, user, isAuthenticated, token, storage, pending>>
cacheVars == <<cache, inflight>>
uiVars == <<form, carousel>>
vars == <<now, MOCK_USERS, user, isAuthenticated, token, storage, pending, cache, inflight, ret,
          form, carousel>>

(***************************************************************************)
(* Bounds of the model.                                                    *)
(***************************************************************************)
MaxPending == 1
MaxInflight == 1
\* requests in flight at once where calls overlap
MaxOverlap == 2
\* login and register calls waiting at once where calls overlap
MaxConcurrent == 2

(***************************************************************************)
(* Program constants.                                                      *)
(***************************************************************************)
LoginDelay == 800
TokenLifetime == 24 * 60 * 60

(***************************************************************************)
(* JavaScript values.                                                      *)
(***************************************************************************)
NullUser == [null |-> TRUE]
NullToken == <<>>
NoStorage == [null |-> TRUE]
NoRet == [op |-> "none"]

Ok(v) == [threw |-> FALSE, value |-> v]
Throw(e) == [threw |-> TRUE, error |-> e]

\* String.prototype.toLowerCase on one code unit (ASCII and Latin-1 letters).
toLowerUnit(c) ==
    IF (c >= 65 /\ c <= 90) \/ (c >= 192 /\ c <= 222 /\ c # 215)
    THEN c + 32
    ELSE c

toLowerCase(s) == [i \in DOMAIN s |-> toLowerUnit(s[i])]

\* "demo@example.com"
DemoEmail == <<100, 101, 109, 111, 64, 101, 120, 97, 109, 112, 108, 101, 46, 99, 111, 109>>
\* "Demo@Example.COM"
DemoEmailMixed == <<68, 101, 109, 111, 64, 69, 120, 97, 109, 112, 108, 101, 46, 67, 79, 77>>
\* "new@x.com"
NewEmail == <<110, 101, 119, 64, 120, 46, 99, 111, 109>>
\* "New@X.com"
NewEmailMixed == <<78, 101, 119, 64, 88, 46, 99, 111, 109>>
\* "b@x.com"
OtherEmail == <<98, 64, 120, 46, 99, 111, 109>>
\* "constructor"
ConstructorName == <<99, 111, 110, 115, 116, 114, 117, 99, 116, 111, 114>>
\* "Demo User"
DemoName == <<68, 101, 109, 111, 32, 85, 115, 101, 114>>
\* "Ann"
AnnName == <<65, 110, 110>>
\* "Ωmega" (U+03A9 is outside Latin-1)
OmegaName == <<937, 109, 101, 103, 97>>
\* the argument of login has no name
NoName == <<>>

Emails == {DemoEmail, DemoEmailMixed, NewEmailMixed, ConstructorName}
Names == {AnnName, OmegaName}
Passwords == {"demo123", "pw1"}

(***************************************************************************)
(* JSON and base64.  A text is either JSON.stringify of a value or some    *)
(* other string; a segment is either btoa of a text or a string that is    *)
(* not base64.  The string members of the objects encoded here that can    *)
(* hold arbitrary characters are email and name.                           *)
(***************************************************************************)
Undefined == [undefined |-> TRUE]
JsonNull == [null |-> TRUE]

Range(s) == {s[i] : i \in DOMAIN s}

JSON_stringify(obj) == [json |-> TRUE, value |-> obj]

JSON_parse(text) ==
    IF text.json THEN Ok(text.value) ELSE Throw("SyntaxError")

TextUnits(text) ==
    IF text.json
    THEN UNION {Range(text.value[f]) : f \in (DOMAIN text.value) \cap {"email", "name"}}
    ELSE Range(text.units)

\* btoa throws on a code unit above 0xFF
btoa(text) ==
    IF \E u \in TextUnits(text) : u > 255
    THEN Throw("InvalidCharacterError")
    ELSE Ok([b64 |-> TRUE, text |-> text])

\* atob(undefined) decodes the string "undefined", which is not base64
atob(seg) ==
    IF seg = Undefined THEN Throw("InvalidCharacterError")
    ELSE IF seg.b64 THEN Ok(seg.text)
    ELSE Throw("InvalidCharacterError")

JWTHeader == [alg |-> "HS256", typ |-> "JWT"]
\* "mock-signature"
MockSignature == [json |-> FALSE, units |-> <<109, 111, 99, 107, 45, 115, 105, 103, 110, 97, 116, 117, 114, 101>>]

generateJWT(payload) ==
    LET header == btoa(JSON_stringify(JWTHeader))
        data == btoa(JSON_stringify(payload))
        signature == btoa(MockSignature)
    IN  IF header.threw THEN header
        ELSE IF data.threw THEN data
        ELSE IF signature.threw THEN signature
        ELSE Ok(<<header.value, data.value, signature.value>>)

\* a token still valid at the instant exp * 1000
isValidTokenTry_inclusive(tok, clock) ==
    LET data == IF Len(tok) >= 2 THEN tok[2] ELSE Undefined
        decoded == atob(data)
    IN  IF decoded.threw THEN decoded
        ELSE LET parsed == JSON_parse(decoded.value)
             IN  IF parsed.threw THEN parsed
                 ELSE IF parsed.value = JsonNull THEN Throw("TypeError")
                 ELSE IF "exp" \notin DOMAIN parsed.value THEN Ok(FALSE)
                 ELSE Ok(parsed.value.exp * 1000 >= clock)

\* The body of the try block: const [, data] = token.split("."); ...
isValidTokenTry(tok, clock) ==
    LET data == IF Len(tok) >= 2 THEN tok[2] ELSE Undefined
        decoded == atob(data)
    IN  IF decoded.threw THEN decoded
        ELSE LET parsed == JSON_parse(decoded.value)
             IN  IF parsed.threw THEN parsed
                 ELSE IF parsed.value = JsonNull THEN Throw("TypeError")
                 ELSE IF "exp" \notin DOMAIN parsed.value THEN Ok(FALSE)
                 ELSE Ok(parsed.value.exp * 1000 > clock)

\* validation without the catch block
isValidToken_noCatch(tok, clock) == isValidTokenTry(tok, clock)

\* try { ... } catch { return false }
isValidToken(tok, clock) ==
    LET r == isValidTokenTry(tok, clock)
    IN  IF r.threw THEN Ok(FALSE) ELSE r

(***************************************************************************)
(* The account object.  MOCK_USERS[key] reads an own property, else a      *)
(* property inherited from Object.prototype, else undefined.               *)
(***************************************************************************)
InitialUsers ==
    [k \in {DemoEmail} |->
        [id |-> "1", email |-> DemoEmail, name |-> DemoName, password |-> "demo123"]]

ObjectPrototypeKeys == {ConstructorName}
Inherited == [inherited |-> TRUE]

Lookup(users, key) ==
    IF key \in DOMAIN users THEN users[key]
    ELSE IF key \in ObjectPrototypeKeys THEN Inherited
    ELSE Undefined

truthy(v) == v # Undefined

PasswordIs(u, password) == "password" \in DOMAIN u /\ u.password = password

Put(users, key, account) ==
    [k \in (DOMAIN users) \cup {key} |-> IF k = key THEN account ELSE users[k]]

Envelope(u, a, t) == [state |-> [user |-> u, isAuthenticated |-> a, token |-> t]]

(***************************************************************************)
(* The components.  A number of JavaScript is a value or NaN.              *)
(***************************************************************************)
NaN == [nan |-> TRUE]
Num(v) == [nan |-> FALSE, value |-> v]
NoError == [null |-> TRUE]

\* useState(false), useState<string | null>(null)
InitialForm == [isLoading |-> FALSE, error |-> NoError]

\* useState<Movie[]>([]), useState(0), useState(true)
InitialCarousel == [featuredMovies |-> <<>>, currentIndex |-> Num(0), loading |-> TRUE]

(***************************************************************************)
(* The session store.  set(...) of the persist middleware writes the       *)
(* state to storage in the same step.                                      *)
(***************************************************************************)
Init ==
    /\ now = 0
    /\ MOCK_USERS = InitialUsers
    /\ user = NullUser
    /\ isAuthenticated = FALSE
    /\ token = NullToken
    /\ storage = NoStorage
    /\ pending = <<>>
    /\ cache = [k \in {} |-> Undefined]
    /\ inflight = <<>>
    /\ ret = NoRet
    /\ form = InitialForm
    /\ carousel = InitialCarousel

\* checkAuth: token ? isValidToken(token) : false
checkAuthBody(tok, clock) ==
    IF tok # NullToken THEN isValidToken(tok, clock) ELSE Ok(FALSE)

\* checkAuth() returns true
CheckAuthTrue(tok, clock) ==
    LET r == checkAuthBody(tok, clock) IN ~r.threw /\ r.value

\* login telling an unknown email from a wrong password
loginBody_revealsAccount(users, email, password, clock) ==
    LET u == Lookup(users, toLowerCase(email))
    IN  IF truthy(u) /\ PasswordIs(u, password)
        THEN LET t == generateJWT([id |-> u.id, email |-> u.email, name |-> u.name,
                                   exp |-> (clock \div 1000) + TokenLifetime])
             IN  IF t.threw
                 THEN [threw |-> TRUE, error |-> t.error, set |-> FALSE]
                 ELSE [threw |-> FALSE, set |-> TRUE,
                       user |-> [id |-> u.id, email |-> u.email, name |-> u.name],
                       token |-> t.value,
                       success |-> TRUE, message |-> "Login successful"]
        ELSE IF truthy(u)
        THEN [threw |-> FALSE, set |-> FALSE,
              success |-> FALSE, message |-> "Invalid email or password"]
        ELSE [threw |-> FALSE, set |-> FALSE,
              success |-> FALSE, message |-> "User not found"]

\* login minting a token that lives one hour
loginBody_hourToken(users, email, password, clock) ==
    LET u == Lookup(users, toLowerCase(email))
    IN  IF truthy(u) /\ PasswordIs(u, password)
        THEN LET t == generateJWT([id |-> u.id, email |-> u.email, name |-> u.name,
                                   exp |-> (clock \div 1000) + 60 * 60])
             IN  IF t.threw
                 THEN [threw |-> TRUE, error |-> t.error, set |-> FALSE]
                 ELSE [threw |-> FALSE, set |-> TRUE,
                       user |-> [id |-> u.id, email |-> u.email, name |-> u.name],
                       token |-> t.value,
                       success |-> TRUE, message |-> "Login successful"]
        ELSE [threw |-> FALSE, set |-> FALSE,
              success |-> FALSE, message |-> "Invalid email or password"]

\* What the part of login after the await does, as a function of what it reads.
loginBody(users, email, password, clock) ==
    LET u == Lookup(users, toLowerCase(email))
    IN  IF truthy(u) /\ PasswordIs(u, password)
        THEN LET t == generateJWT([id |-> u.id, email |-> u.email, name |-> u.name,
                                   exp |-> (clock \div 1000) + TokenLifetime])
             IN  IF t.threw
                 THEN [threw |-> TRUE, error |-> t.error, set |-> FALSE]
                 ELSE [threw |-> FALSE, set |-> TRUE,
                       user |-> [id |-> u.id, email |-> u.email, name |-> u.name],
                       token |-> t.value,
                       success |-> TRUE, message |-> "Login successful"]
        ELSE [threw |-> FALSE, set |-> FALSE,
              success |-> FALSE, message |-> "Invalid email or password"]

\* a register that replaces the account it finds and reports the duplicate
registerBody_overwrites(users, email, name, password, clock) ==
    LET newUser == [id |-> ToString(Cardinality(DOMAIN users) + 1),
                    email |-> toLowerCase(email),
                    name |-> name,
                    password |-> password]
        stored == Put(users, toLowerCase(email), newUser)
        t == generateJWT([id |-> newUser.id, email |-> newUser.email,
                          name |-> newUser.name,
                          exp |-> (clock \div 1000) + TokenLifetime])
    IN  IF truthy(Lookup(users, toLowerCase(email)))
        THEN [threw |-> FALSE, set |-> FALSE, users |-> stored,
              success |-> FALSE, message |-> "User already exists"]
        ELSE IF t.threw
        THEN [threw |-> TRUE, error |-> t.error, set |-> FALSE, users |-> stored]
        ELSE [threw |-> FALSE, set |-> TRUE, users |-> stored,
              user |-> [id |-> newUser.id, email |-> newUser.email,
                        name |-> newUser.name],
              token |-> t.value,
              success |-> TRUE, message |-> "Registration successful"]

\* a register whose new id is the account count
registerBody_idFromCount(users, email, name, password, clock) ==
    IF truthy(Lookup(users, toLowerCase(email)))
    THEN [threw |-> FALSE, set |-> FALSE, users |-> users,
          success |-> FALSE, message |-> "User already exists"]
    ELSE LET newUser == [id |-> ToString(Cardinality(DOMAIN users)),
                         email |-> toLowerCase(email),
                         name |-> name,
                         password |-> password]
             stored == Put(users, toLowerCase(email), newUser)
             t == generateJWT([id |-> newUser.id, email |-> newUser.email,
                               name |-> newUser.name,
                               exp |-> (clock \div 1000) + TokenLifetime])
         IN  IF t.threw
             THEN [threw |-> TRUE, error |-> t.error, set |-> FALSE, users |-> stored]
             ELSE [threw |-> FALSE, set |-> TRUE, users |-> stored,
                   user |-> [id |-> newUser.id, email |-> newUser.email,
                             name |-> newUser.name],
                   token |-> t.value,
                   success |-> TRUE, message |-> "Registration successful"]

\* a register that logs its caller in to the account that exists already
registerBody_duplicateLogsIn(users, email, name, password, clock) ==
    LET u == Lookup(users, toLowerCase(email))
        t == generateJWT([id |-> u.id, email |-> u.email, name |-> u.name,
                          exp |-> (clock \div 1000) + TokenLifetime])
    IN  IF toLowerCase(email) \in DOMAIN users /\ ~t.threw
        THEN [threw |-> FALSE, set |-> TRUE, users |-> users,
              user |-> [id |-> u.id, email |-> u.email, name |-> u.name],
              token |-> t.value,
              success |-> FALSE, message |-> "User already exists"]
        ELSE IF truthy(u)
        THEN [threw |-> FALSE, set |-> FALSE, users |-> users,
              success |-> FALSE, message |-> "User already exists"]
        ELSE LET newUser == [id |-> ToString(Cardinality(DOMAIN users) + 1),
                             email |-> toLowerCase(email),
                             name |-> name,
                             password |-> password]
                 stored == Put(users, toLowerCase(email), newUser)
                 tn == generateJWT([id |-> newUser.id, email |-> newUser.email,
                                    name |-> newUser.name,
                                    exp |-> (clock \div 1000) + TokenLifetime])
             IN  IF tn.threw
                 THEN [threw |-> TRUE, error |-> tn.error, set |-> FALSE, users |-> stored]
                 ELSE [threw |-> FALSE, set |-> TRUE, users |-> stored,
                       user |-> [id |-> newUser.id, email |-> newUser.email,
                                 name |-> newUser.name],
                       token |-> tn.value,
                       success |-> TRUE, message |-> "Registration successful"]

\* What the part of register after the await does.  users is the account
\* object as register leaves it: the account is stored before the token is
\* minted.
registerBody(users, email, name, password, clock) ==
    IF truthy(Lookup(users, toLowerCase(email)))
    THEN [threw |-> FALSE, set |-> FALSE, users |-> users,
          success |-> FALSE, message |-> "User already exists"]
    ELSE LET newUser == [id |-> ToString(Cardinality(DOMAIN users) + 1),
                         email |-> toLowerCase(email),
                         name |-> name,
                         password |-> password]
             stored == Put(users, toLowerCase(email), newUser)
             t == generateJWT([id |-> newUser.id, email |-> newUser.email,
                               name |-> newUser.name,
                               exp |-> (clock \div 1000) + TokenLifetime])
         IN  IF t.threw
             THEN [threw |-> TRUE, error |-> t.error, set |-> FALSE, users |-> stored]
             ELSE [threw |-> FALSE, set |-> TRUE, users |-> stored,
                   user |-> [id |-> newUser.id, email |-> newUser.email,
                             name |-> newUser.name],
                   token |-> t.value,
                   success |-> TRUE, message |-> "Registration successful"]

\* The value a call's promise settles with.
Settled(call, r) ==
    IF r.threw
    THEN [op |-> call.op, call |-> call, threw |-> TRUE, error |-> r.error]
    ELSE [op |-> call.op, call |-> call, threw |-> FALSE,
          success |-> r.success, message |-> r.message]

\* a set(...) of the token and the flag that leaves the user for later
SetSession_withoutUser(r) ==
    IF r.set
    THEN /\ user' = user
         /\ isAuthenticated' = TRUE
         /\ token' = r.token
         /\ storage' = Envelope(user, TRUE, r.token)
    ELSE UNCHANGED <<user, isAuthenticated, token, storage>>

\* a set(...) that reaches the store and not the storage
SetSession_notPersisted(r) ==
    IF r.set
    THEN /\ user' = r.user
         /\ isAuthenticated' = TRUE
         /\ token' = r.token
         /\ storage' = storage
    ELSE UNCHANGED <<user, isAuthenticated, token, storage>>

\* set({user, isAuthenticated: true, token}) and the persist write
SetSession(r) ==
    IF r.set
    THEN /\ user' = r.user
         /\ isAuthenticated' = TRUE
         /\ token' = r.token
         /\ storage' = Envelope(r.user, TRUE, r.token)
    ELSE UNCHANGED <<user, isAuthenticated, token, storage>>

\* login up to its await: the 800 ms timer is started.  At most bound calls
\* wait in their timers.
loginWithin(bound, email, password) ==
    /\ Len(pending) < bound
    /\ pending' = Append(pending, [op |-> "login", email |-> email, name |-> NoName,
                                   password |-> password, wait |-> LoginDelay])
    /\ ret' = NoRet
    /\ UNCHANGED <<now, MOCK_USERS, user, isAuthenticated, token, storage, cacheVars, uiVars>>

login(email, password) == loginWithin(MaxPending, email, password)

\* login after its await.  Timers of equal delay fire in the order they were set.
loginResume ==
    /\ pending # <<>>
    /\ Head(pending).op = "login"
    /\ Head(pending).wait = 0
    /\ LET c == Head(pending)
           r == loginBody(MOCK_USERS, c.email, c.password, now)
       IN  /\ SetSession(r)
           /\ ret' = Settled(c, r)
    /\ pending' = Tail(pending)
    /\ UNCHANGED <<now, MOCK_USERS, cacheVars, uiVars>>

registerWithin(bound, email, name, password) ==
    /\ Len(pending) < bound
    /\ pending' = Append(pending, [op |-> "register", email |-> email, name |-> name,
                                   password |-> password, wait |-> LoginDelay])
    /\ ret' = NoRet
    /\ UNCHANGED <<now, MOCK_USERS, user, isAuthenticated, token, storage, cacheVars, uiVars>>

register(email, name, password) == registerWithin(MaxPending, email, name, password)

registerResume ==
    /\ pending # <<>>
    /\ Head(pending).op = "register"
    /\ Head(pending).wait = 0
    /\ LET c == Head(pending)
           r == registerBody(MOCK_USERS, c.email, c.name, c.password, now)
       IN  /\ MOCK_USERS' = r.users
           /\ SetSession(r)
           /\ ret' = Settled(c, r)
    /\ pending' = Tail(pending)
    /\ UNCHANGED <<now, cacheVars, uiVars>>

\* logout that leaves the token in place
logout_keepsToken ==
    /\ user' = NullUser
    /\ isAuthenticated' = FALSE
    /\ token' = token
    /\ storage' = Envelope(NullUser, FALSE, token)
    /\ ret' = [op |-> "logout", wasAuthenticated |-> isAuthenticated]
    /\ UNCHANGED <<now, MOCK_USERS, pending, cacheVars, uiVars>>

logout ==
    /\ user' = NullUser
    /\ isAuthenticated' = FALSE
    /\ token' = NullToken
    /\ storage' = Envelope(NullUser, FALSE, NullToken)
    /\ ret' = [op |-> "logout", wasAuthenticated |-> isAuthenticated]
    /\ UNCHANGED <<now, MOCK_USERS, pending, cacheVars, uiVars>>

checkAuth ==
    /\ ret' = [op |-> "checkAuth", result |-> checkAuthBody(token, now)]
    /\ UNCHANGED <<now, MOCK_USERS, user, isAuthenticated, token, storage, pending, cacheVars, uiVars>>

\* The process ends and a new one starts: module and component state is
\* initial again, the timers are gone, and persist rehydrates the store from
\* storage.
restart ==
    /\ MOCK_USERS' = InitialUsers
    /\ pending' = <<>>
    /\ inflight' = <<>>
    /\ ret' = NoRet
    /\ IF storage = NoStorage
       THEN /\ user' = NullUser
            /\ isAuthenticated' = FALSE
            /\ token' = NullToken
       ELSE /\ user' = storage.state.user
            /\ isAuthenticated' = storage.state.isAuthenticated
            /\ token' = storage.state.token
    /\ form' = InitialForm
    /\ carousel' = InitialCarousel
    /\ UNCHANGED <<now, storage, cache>>

\* Clock values at which the model samples Date.now().
AuthInstants == {0, 800, 86399999, 86400000, 86400800}

Max(a, b) == IF a >= b THEN a ELSE b

\* Time passes: the clock reads t, and every timer has run t - now further.
tick(instants) ==
    /\ \E t \in instants :
          /\ t > now
          /\ now' = t
          /\ pending' = [i \in DOMAIN pending |->
                           [pending[i] EXCEPT !.wait = Max(0, @ - (t - now))]]
    /\ ret' = NoRet
    /\ UNCHANGED <<MOCK_USERS, user, isAuthenticated, token, storage, cacheVars, uiVars>>

(***************************************************************************)
(* The API helpers.  src/lib/api.ts of the native app reads through a      *)
(* cache kept in AsyncStorage; lib/api.ts of the web app has no cache.     *)
(* An optional argument is a string or undefined.                          *)
(***************************************************************************)
JsString(str) == [string |-> str]

\* `${v}` in a template literal
Interpolate(v) == IF v = Undefined THEN "undefined" ELSE v.string

\* v || ""
OrEmpty(v) == IF v = Undefined THEN "" ELSE v.string

searchCacheKey(term, type, year) ==
    "search:" \o Interpolate(term) \o ":" \o Interpolate(type) \o ":" \o Interpolate(year)

movieCacheKey(imdbID) == "movie:" \o Interpolate(imdbID)

SearchTTL == 60 * 60 * 1000
DetailsTTL == 24 * 60 * 60 * 1000

\* AsyncStorage.getItem: the stored string, or null
getItem(items, key) == IF key \in DOMAIN items THEN items[key] ELSE Undefined

\* AsyncStorage.setItem(key, JSON.stringify({data, timestamp}))
setItem(items, key, data, timestamp) ==
    [k \in (DOMAIN items) \cup {key} |->
        IF k = key THEN [data |-> data, timestamp |-> timestamp] ELSE items[k]]

\* an entry served when it is exactly ttl old
servedFromCache_inclusive(items, key, ttl, clock) ==
    /\ getItem(items, key) # Undefined
    /\ clock - getItem(items, key).timestamp <= ttl

\* if (cachedData) { ...; if (Date.now() - timestamp < ttl) return data }
servedFromCache(items, key, ttl, clock) ==
    /\ getItem(items, key) # Undefined
    /\ clock - getItem(items, key).timestamp < ttl

\* What the server can answer: a body with an HTTP success status, a
\* non-success status, or no answer at all.
Payloads == {"moviesA", "moviesB"}
Answers ==
    {[kind |-> "ok", data |-> d] : d \in Payloads}
        \cup {[kind |-> "status"], [kind |-> "transport"]}

Remove(seq, i) == [j \in 1..(Len(seq) - 1) |-> IF j < i THEN seq[j] ELSE seq[j + 1]]

Returned(op, key, via, value) ==
    [op |-> op, key |-> key, via |-> via, threw |-> FALSE, value |-> value]
Raised(op, key, via, error) ==
    [op |-> op, key |-> key, via |-> via, threw |-> TRUE, error |-> error]
\* via: the call returned at once, or the answer its continuation received
Immediate == [kind |-> "none"]

\* a cached helper whose hit stores the entry again with the time of the read
cachedCallWithin_refreshes(bound, op, key, ttl, params) ==
    /\ IF servedFromCache(cache, key, ttl, now)
       THEN /\ ret' = Returned(op, key, Immediate, getItem(cache, key).data)
            /\ cache' = setItem(cache, key, getItem(cache, key).data, now)
            /\ UNCHANGED inflight
       ELSE /\ Len(inflight) < bound
            /\ inflight' = Append(inflight, [op |-> op, key |-> key, params |-> params])
            /\ ret' = NoRet
            /\ UNCHANGED cache
    /\ UNCHANGED <<now, authVars, uiVars>>

\* How an AsyncStorage operation ends: its promise resolves, or it rejects.
StorageOutcomes == {"resolved", "rejected"}
\* a stored string that is not JSON
Unparsable == [unparsable |-> TRUE]

\* A cached helper up to its request: the cache is read, and either the
\* stored data is returned or api.get is called.  The read and the parse
\* stand before the try block, so what they raise leaves the helper as it
\* is.  At most bound requests are in flight.
cachedRead(bound, op, key, ttl, params, read) ==
    /\ IF read = "rejected"
       THEN /\ ret' = Raised(op, key, Immediate, "AsyncStorageError")
            /\ UNCHANGED inflight
       ELSE IF getItem(cache, key) = Unparsable
       THEN /\ ret' = Raised(op, key, Immediate, "SyntaxError")
            /\ UNCHANGED inflight
       ELSE IF servedFromCache(cache, key, ttl, now)
       THEN /\ ret' = Returned(op, key, Immediate, getItem(cache, key).data)
            /\ UNCHANGED inflight
       ELSE /\ Len(inflight) < bound
            /\ inflight' = Append(inflight, [op |-> op, key |-> key, params |-> params])
            /\ ret' = NoRet
    /\ UNCHANGED <<now, authVars, cache, uiVars>>

\* the helper over a storage that answers every read
cachedCallWithin(bound, op, key, ttl, params) ==
    cachedRead(bound, op, key, ttl, params, "resolved")

cachedCall(op, key, ttl, params) ==
    cachedCallWithin(MaxInflight, op, key, ttl, params)

\* a continuation that leaves alone an entry that is still served
cachedResume_keepsFresh(op, i, answer, message) ==
    /\ i \in DOMAIN inflight
    /\ inflight[i].op = op
    /\ IF answer.kind = "ok"
       THEN /\ cache' = IF servedFromCache(cache, inflight[i].key, SearchTTL, now)
                        THEN cache
                        ELSE setItem(cache, inflight[i].key, answer.data, now)
            /\ ret' = Returned(op, inflight[i].key, answer, answer.data)
       ELSE /\ UNCHANGED cache
            /\ ret' = Raised(op, inflight[i].key, answer, message)
    /\ inflight' = Remove(inflight, i)
    /\ UNCHANGED <<now, authVars, uiVars>>

\* a continuation that stores an entry for a failed request too
cachedResume_storesFailure(op, i, answer, message) ==
    /\ i \in DOMAIN inflight
    /\ inflight[i].op = op
    /\ IF answer.kind = "ok"
       THEN /\ cache' = setItem(cache, inflight[i].key, answer.data, now)
            /\ ret' = Returned(op, inflight[i].key, answer, answer.data)
       ELSE /\ cache' = setItem(cache, inflight[i].key, message, now)
            /\ ret' = Raised(op, inflight[i].key, answer, message)
    /\ inflight' = Remove(inflight, i)
    /\ UNCHANGED <<now, authVars, uiVars>>

\* A cached helper from the answer of api.get on: axios rejects on a
\* non-success status and on a transport error, and the catch block rethrows.
\* The write stands inside the try block, so its rejection is caught and
\* rethrown like a failed request.
cachedWrite(op, i, answer, message, write) ==
    /\ i \in DOMAIN inflight
    /\ inflight[i].op = op
    /\ IF answer.kind = "ok" /\ write = "resolved"
       THEN /\ cache' = setItem(cache, inflight[i].key, answer.data, now)
            /\ ret' = Returned(op, inflight[i].key, answer, answer.data)
       ELSE /\ UNCHANGED cache
            /\ ret' = Raised(op, inflight[i].key, answer, message)
    /\ inflight' = Remove(inflight, i)
    /\ UNCHANGED <<now, authVars, uiVars>>

\* the helper over a storage that takes every write
cachedResume(op, i, answer, message) ==
    cachedWrite(op, i, answer, message, "resolved")

searchMovies(term, type, year) ==
    cachedCall("searchMovies", searchCacheKey(term, type, year), SearchTTL,
               [s |-> term.string, type |-> OrEmpty(type), y |-> OrEmpty(year)])

searchMoviesResume(i, answer) ==
    cachedResume("searchMovies", i, answer, "Failed to fetch movies")

\* details kept for the hour that search results are kept
getMovieDetails_hourTTL(imdbID) ==
    cachedCall("getMovieDetails", movieCacheKey(imdbID), SearchTTL,
               [i |-> imdbID.string, plot |-> "full"])

getMovieDetails(imdbID) ==
    cachedCall("getMovieDetails", movieCacheKey(imdbID), DetailsTTL,
               [i |-> imdbID.string, plot |-> "full"])

getMovieDetailsResume(i, answer) ==
    cachedResume("getMovieDetails", i, answer, "Failed to fetch movie details")

\* lib/api.ts of the web app: every call sends a request
searchMoviesWeb(term, type, year) ==
    /\ Len(inflight) < MaxInflight
    /\ inflight' = Append(inflight,
                          [op |-> "searchMoviesWeb", key |-> "",
                           params |-> [s |-> term.string, type |-> OrEmpty(type),
                                       y |-> OrEmpty(year)]])
    /\ ret' = NoRet
    /\ UNCHANGED <<now, authVars, cache, uiVars>>

\* fetch rejects on a transport error; a non-success status is thrown as
\* "Failed to fetch movies".
searchMoviesWebResume(i, answer) ==
    /\ i \in DOMAIN inflight
    /\ inflight[i].op = "searchMoviesWeb"
    /\ ret' = IF answer.kind = "ok"
              THEN Returned("searchMoviesWeb", "", answer, answer.data)
              ELSE IF answer.kind = "status"
              THEN Raised("searchMoviesWeb", "", answer, "Failed to fetch movies")
              ELSE Raised("searchMoviesWeb", "", answer, "TypeError")
    /\ inflight' = Remove(inflight, i)
    /\ UNCHANGED <<now, authVars, cache, uiVars>>

Terms == {JsString("batman")}
Types == {JsString("")}
Years == {JsString(""), Undefined}
ImdbIDs == {JsString("tt0372784")}

CacheInstants == {0, 3599999, 3600000, 86399999, 86400000}

NextCache ==
    \/ \E t \in Terms, ty \in Types, y \in Years : searchMovies(t, ty, y)
    \/ \E i \in 1..MaxInflight, a \in Answers : searchMoviesResume(i, a)
    \/ \E id \in ImdbIDs : getMovieDetails(id)
    \/ \E i \in 1..MaxInflight, a \in Answers : getMovieDetailsResume(i, a)
    \/ \E t \in Terms, ty \in Types, y \in Years : searchMoviesWeb(t, ty, y)
    \/ \E i \in 1..MaxInflight, a \in Answers : searchMoviesWebResume(i, a)
    \/ restart
    \/ tick(CacheInstants)

SpecCache == Init /\ [][NextCache]_vars

(***************************************************************************)
(* Calls that overlap: a helper is called again while requests are in      *)
(* flight, with search terms and filters that contain the separator of     *)
(* the cache key.                                                          *)
(***************************************************************************)
searchMoviesOverlapping(term, type, year) ==
    cachedCallWithin(MaxOverlap, "searchMovies", searchCacheKey(term, type, year),
                     SearchTTL,
                     [s |-> term.string, type |-> OrEmpty(type), y |-> OrEmpty(year)])

getMovieDetailsOverlapping(imdbID) ==
    cachedCallWithin(MaxOverlap, "getMovieDetails", movieCacheKey(imdbID), DetailsTTL,
                     [i |-> imdbID.string, plot |-> "full"])

\* <<term, type, year>>
OverlapQueries ==
    { <<JsString("a:b"), JsString("c"), JsString("")>>,
      <<JsString("a"), JsString("b:c"), JsString("")>>,
      <<JsString("a"), JsString("c"), JsString("")>> }
OverlapInstants == {0, 1, 3600001}

NextOverlap ==
    \/ \E q \in OverlapQueries : searchMoviesOverlapping(q[1], q[2], q[3])
    \/ \E i \in 1..MaxOverlap, a \in Answers : searchMoviesResume(i, a)
    \/ \E id \in ImdbIDs : getMovieDetailsOverlapping(id)
    \/ \E i \in 1..MaxOverlap, a \in Answers : getMovieDetailsResume(i, a)
    \/ tick(OverlapInstants)

SpecOverlap == Init /\ [][NextOverlap]_vars

(***************************************************************************)
(* Replies that signal failure in their body: the API answers a search     *)
(* without result with HTTP status 200 and {Response: "False", Error}.     *)
(***************************************************************************)
\* the body {"Response": "False", "Error": "Movie not found!"}
ResponseFalse == "responseFalse"
BodyAnswers ==
    {[kind |-> "ok", data |-> "moviesA"], [kind |-> "ok", data |-> ResponseFalse],
     [kind |-> "status"]}
BodyInstants == {0, 1800000, 3600000}

NextBodies ==
    \/ \E t \in Terms, ty \in Types : searchMovies(t, ty, JsString(""))
    \/ \E i \in 1..MaxInflight, a \in BodyAnswers : searchMoviesResume(i, a)
    \/ \E id \in ImdbIDs : getMovieDetails(id)
    \/ \E i \in 1..MaxInflight, a \in BodyAnswers : getMovieDetailsResume(i, a)
    \/ tick(BodyInstants)

SpecBodies == Init /\ [][NextBodies]_vars

(***************************************************************************)
(* The helpers over a storage whose operations can fail and whose entries  *)
(* can be damaged.                                                         *)
(***************************************************************************)
searchMoviesReading(term, type, year, read) ==
    cachedRead(MaxInflight, "searchMovies", searchCacheKey(term, type, year), SearchTTL,
               [s |-> term.string, type |-> OrEmpty(type), y |-> OrEmpty(year)], read)

searchMoviesWriting(i, answer, write) ==
    cachedWrite("searchMovies", i, answer, "Failed to fetch movies", write)

getMovieDetailsReading(imdbID, read) ==
    cachedRead(MaxInflight, "getMovieDetails", movieCacheKey(imdbID), DetailsTTL,
               [i |-> imdbID.string, plot |-> "full"], read)

getMovieDetailsWriting(i, answer, write) ==
    cachedWrite("getMovieDetails", i, answer, "Failed to fetch movie details", write)

\* The string stored under a key is damaged, or was written by somebody
\* else: what getItem returns for it is not JSON.
spoil(key) ==
    /\ key \in DOMAIN cache
    /\ cache[key] # Unparsable
    /\ cache' = [cache EXCEPT ![key] = Unparsable]
    /\ ret' = NoRet
    /\ UNCHANGED <<now, authVars, inflight, uiVars>>

FaultAnswers == {[kind |-> "ok", data |-> "moviesA"], [kind |-> "transport"]}
FaultInstants == {0, 3600000}

NextFaults ==
    \/ \E t \in Terms, ty \in Types, r \in StorageOutcomes :
          searchMoviesReading(t, ty, JsString(""), r)
    \/ \E i \in 1..MaxInflight, a \in FaultAnswers, w \in StorageOutcomes :
          searchMoviesWriting(i, a, w)
    \/ \E id \in ImdbIDs, r \in StorageOutcomes : getMovieDetailsReading(id, r)
    \/ \E i \in 1..MaxInflight, a \in FaultAnswers, w \in StorageOutcomes :
          getMovieDetailsWriting(i, a, w)
    \/ \E t \in Terms, ty \in Types : spoil(searchCacheKey(t, ty, JsString("")))
    \/ \E id \in ImdbIDs : spoil(movieCacheKey(id))
    \/ tick(FaultInstants)

SpecFaults == Init /\ [][NextFaults]_vars

NextAuth ==
    \/ \E e \in Emails, p \in Passwords : login(e, p)
    \/ loginResume
    \/ \E e \in Emails, n \in Names, p \in Passwords : register(e, n, p)
    \/ registerResume
    \/ logout
    \/ checkAuth
    \/ restart
    \/ tick(AuthInstants)

SpecAuth == Init /\ [][NextAuth]_vars

(***************************************************************************)
(* The store around the end of a token's life: the clock reads the second  *)
(* before and the instant of the 24 hours after each instant at which a    *)
(* token can be minted.                                                    *)
(***************************************************************************)
Day == 24 * 60 * 60 * 1000
ExpiryInstants == {0, 800, 1600, 800 + Day - 1000, 1600 + Day - 1000, 800 + Day, 1600 + Day}
ExpiryEmails == {DemoEmailMixed, NewEmail}

NextExpiry ==
    \/ \E e \in ExpiryEmails, p \in Passwords : login(e, p)
    \/ loginResume
    \/ \E n \in Names : register(NewEmail, n, "pw1")
    \/ registerResume
    \/ logout
    \/ checkAuth
    \/ restart
    \/ tick(ExpiryInstants)

SpecExpiry == Init /\ [][NextExpiry]_vars

(***************************************************************************)
(* Calls of the store that overlap: login, register and logout are called  *)
(* while earlier calls wait in their timers.                               *)
(***************************************************************************)
ConcurrentEmails == {NewEmail, NewEmailMixed}
ConcurrentPasswords == {"pw1", "pw2"}
ConcurrentInstants == {0, 800, 1600}

NextConcurrent ==
    \/ \E e \in ConcurrentEmails, p \in ConcurrentPasswords :
          loginWithin(MaxConcurrent, e, p)
    \/ loginResume
    \/ \E e \in ConcurrentEmails, n \in Names, p \in ConcurrentPasswords :
          registerWithin(MaxConcurrent, e, n, p)
    \/ registerResume
    \/ logout
    \/ restart
    \/ tick(ConcurrentInstants)

SpecConcurrent == Init /\ [][NextConcurrent]_vars

(***************************************************************************)
(* Registrations one after another, for several emails.                    *)
(***************************************************************************)
AccountEmails == {NewEmail, NewEmailMixed, OtherEmail, DemoEmailMixed}
AccountInstants == {0, 800, 1600, 2400}

NextAccounts ==
    \/ \E e \in AccountEmails, n \in Names, p \in Passwords : register(e, n, p)
    \/ registerResume
    \/ logout
    \/ restart
    \/ tick(AccountInstants)

SpecAccounts == Init /\ [][NextAccounts]_vars

(***************************************************************************)
(* The login form (components/login-form.tsx).  onSubmit awaits login, so  *)
(* its continuation runs in the turn in which login settles.               *)
(***************************************************************************)
UnexpectedError == "An unexpected error occurred. Please try again."

\* a handler that shows the text of the exception
onSubmitBody_showsException(result) ==
    IF result.threw
    THEN [threw |-> FALSE, isLoading |-> FALSE, error |-> JsString(result.error),
          toast |-> "Login failed", route |-> ""]
    ELSE IF result.success
    THEN [threw |-> FALSE, isLoading |-> FALSE, error |-> NoError,
          toast |-> "Login successful", route |-> "/"]
    ELSE [threw |-> FALSE, isLoading |-> FALSE, error |-> JsString(result.message),
          toast |-> "", route |-> ""]

\* onSubmit from the settling of login on: the try block's if, the catch
\* block and the finally block.  result is what the promise settled with.
onSubmitBody(result) ==
    IF result.threw
    THEN [threw |-> FALSE, isLoading |-> FALSE, error |-> JsString(UnexpectedError),
          toast |-> "Login failed", route |-> ""]
    ELSE IF result.success
    THEN [threw |-> FALSE, isLoading |-> FALSE, error |-> NoError,
          toast |-> "Login successful", route |-> "/"]
    ELSE [threw |-> FALSE, isLoading |-> FALSE, error |-> JsString(result.message),
          toast |-> "", route |-> ""]

\* onSubmit up to its await; the submit button is disabled while isLoading
onSubmit(email, password) ==
    /\ ~form.isLoading
    /\ Len(pending) < MaxPending
    /\ form' = [isLoading |-> TRUE, error |-> NoError]
    /\ pending' = Append(pending, [op |-> "login", email |-> email, name |-> NoName,
                                   password |-> password, wait |-> LoginDelay])
    /\ ret' = NoRet
    /\ UNCHANGED <<now, MOCK_USERS, user, isAuthenticated, token, storage, cacheVars,
                   carousel>>

\* login after its await, and then the rest of onSubmit
onSubmitResume ==
    /\ form.isLoading
    /\ pending # <<>>
    /\ Head(pending).op = "login"
    /\ Head(pending).wait = 0
    /\ LET c == Head(pending)
           r == loginBody(MOCK_USERS, c.email, c.password, now)
           h == onSubmitBody(Settled(c, r))
       IN  /\ SetSession(r)
           /\ form' = [isLoading |-> h.isLoading, error |-> h.error]
           /\ ret' = [op |-> "onSubmit", login |-> Settled(c, r), threw |-> h.threw,
                      toast |-> h.toast, route |-> h.route]
    /\ pending' = Tail(pending)
    /\ UNCHANGED <<now, MOCK_USERS, cacheVars, carousel>>

FormEmails == {DemoEmailMixed, NewEmail}
FormInstants == {0, 800, 1600, 2400}

NextForm ==
    \/ \E e \in FormEmails, p \in Passwords : onSubmit(e, p)
    \/ onSubmitResume
    \/ \E n \in Names : register(NewEmail, n, "pw1")
    \/ registerResume
    \/ logout
    \/ tick(FormInstants)

SpecForm == Init /\ [][NextForm]_vars

(***************************************************************************)
(* The movie carousel of the home page (components/movie-carousel.tsx).    *)
(***************************************************************************)
\* a + b and a % n on JavaScript numbers: NaN in, NaN out, and x % 0 is NaN;
\* the remainder has the sign of the dividend
JsAdd(a, b) == IF a.nan \/ b.nan THEN NaN ELSE Num(a.value + b.value)
JsRem(a, n) ==
    IF a.nan \/ n.nan THEN NaN
    ELSE IF n.value = 0 THEN NaN
    ELSE IF a.value >= 0 THEN Num(a.value % n.value)
    ELSE Num(0 - ((0 - a.value) % n.value))

length(seq) == Num(Len(seq))

Movie(title, poster) == [Title |-> title, Poster |-> poster, Year |-> "2012"]
\* What one search can resolve to: a result list, or a body without Search.
SearchResponses ==
    {[Response |-> "False"],
     [Response |-> "True", Search |-> <<Movie("a", "posterA"), Movie("b", "N/A")>>],
     [Response |-> "True",
      Search |-> <<Movie("c", "posterC"), Movie("d", ""), Movie("e", "posterE")>>]}
FeaturedTitles == 5
MaxFeatured == 5

\* result.Search || []
SearchOf(result) == IF "Search" \in DOMAIN result THEN result.Search ELSE <<>>

RECURSIVE flatMapSearch(_)
flatMapSearch(results) ==
    IF results = <<>> THEN <<>>
    ELSE SearchOf(Head(results)) \o flatMapSearch(Tail(results))

\* movie.Poster && movie.Poster !== "N/A"
HasPoster(movie) == movie.Poster # "" /\ movie.Poster # "N/A"

slice(seq, n) == SubSeq(seq, 1, IF Len(seq) < n THEN Len(seq) ELSE n)

\* results.flatMap(...).filter(...).slice(0, 5)
Featured(results) == slice(SelectSeq(flatMapSearch(results), HasPoster), MaxFeatured)

\* What the component renders: the spinner while loading, nothing for an
\* empty list, and otherwise the slide of featuredMovies[currentIndex],
\* whose .Poster is a TypeError when the element is undefined.
render(c) ==
    IF c.loading THEN Ok("spinner")
    ELSE IF Len(c.featuredMovies) = 0 THEN Ok("null")
    ELSE IF c.currentIndex.nan THEN Throw("TypeError")
    ELSE IF c.currentIndex.value \in 0 .. (Len(c.featuredMovies) - 1)
    THEN Ok(c.featuredMovies[c.currentIndex.value + 1])
    ELSE Throw("TypeError")

\* the slide and its two buttons are on the screen
Rendered(c) == ~c.loading /\ Len(c.featuredMovies) > 0 /\ ~render(c).threw

\* The interval fires: it runs from the mount on, and is set up again with
\* the new length when the length of the list changes.
timerTick ==
    /\ ~render(carousel).threw
    /\ carousel' = [carousel EXCEPT !.currentIndex =
                      JsRem(JsAdd(@, Num(1)), length(carousel.featuredMovies))]
    /\ ret' = [op |-> "timer"]
    /\ UNCHANGED <<now, authVars, cacheVars, form>>

nextSlide ==
    /\ Rendered(carousel)
    /\ carousel' = [carousel EXCEPT !.currentIndex =
                      JsRem(JsAdd(@, Num(1)), length(carousel.featuredMovies))]
    /\ ret' = [op |-> "nextSlide"]
    /\ UNCHANGED <<now, authVars, cacheVars, form>>

prevSlide ==
    /\ Rendered(carousel)
    /\ carousel' = [carousel EXCEPT !.currentIndex =
                      JsRem(JsAdd(JsAdd(@, Num(0 - 1)), length(carousel.featuredMovies)),
                            length(carousel.featuredMovies))]
    /\ ret' = [op |-> "prevSlide"]
    /\ UNCHANGED <<now, authVars, cacheVars, form>>

\* Promise.all resolved: every search was answered
fetchFeaturedMovies(results) ==
    /\ carousel.loading
    /\ carousel' = [carousel EXCEPT !.featuredMovies = Featured(results),
                                    !.loading = FALSE]
    /\ ret' = [op |-> "fetchFeaturedMovies", threw |-> FALSE]
    /\ UNCHANGED <<now, authVars, cacheVars, form>>

\* Promise.all rejected: one of the searches failed
fetchFeaturedMoviesFailed ==
    /\ carousel.loading
    /\ carousel' = [carousel EXCEPT !.loading = FALSE]
    /\ ret' = [op |-> "fetchFeaturedMovies", threw |-> TRUE]
    /\ UNCHANGED <<now, authVars, cacheVars, form>>

NextCarousel ==
    \/ \E results \in [1..FeaturedTitles -> SearchResponses] : fetchFeaturedMovies(results)
    \/ fetchFeaturedMoviesFailed
    \/ timerTick
    \/ nextSlide
    \/ prevSlide

SpecCarousel == Init /\ [][NextCarousel]_vars

(***************************************************************************)
(* The app: the store and the API helpers in one running process.          *)
(***************************************************************************)
AppEmails == {DemoEmail, NewEmailMixed}
AppNewEmails == {NewEmailMixed}
AppInstants == {0, 800, 1600}
AppAnswers == {[kind |-> "ok", data |-> "moviesA"], [kind |-> "transport"]}

NextApp ==
    \/ \E e \in AppEmails, p \in Passwords : login(e, p)
    \/ loginResume
    \/ \E e \in AppNewEmails, n \in Names, p \in {"pw1"} : register(e, n, p)
    \/ registerResume
    \/ logout
    \/ checkAuth
    \/ \E t \in Terms, ty \in Types : searchMovies(t, ty, JsString(""))
    \/ \E i \in 1..MaxInflight, a \in AppAnswers : searchMoviesResume(i, a)
    \/ \E id \in ImdbIDs : getMovieDetails(id)
    \/ \E i \in 1..MaxInflight, a \in AppAnswers : getMovieDetailsResume(i, a)
    \/ tick(AppInstants)

SpecApp == Init /\ [][NextApp]_vars

(***************************************************************************)
(* Tokens that were not minted by this process.  The storage key can be    *)
(* written by anything that shares the storage (another script, another    *)
(* version of the app, the user), and the cookie the middleware reads is   *)
(* part of the request.                                                    *)
(***************************************************************************)
RawSegment == [b64 |-> FALSE]
Encoded(text) == [b64 |-> TRUE, text |-> text]
HeaderSegment == Encoded(JSON_stringify(JWTHeader))
SignatureSegment == Encoded(MockSignature)
DemoUser == [id |-> "1", email |-> DemoEmail, name |-> DemoName]
\* a payload that expires when the clock reads 86400000
PayloadSegment ==
    Encoded(JSON_stringify([id |-> "1", email |-> DemoEmail, name |-> DemoName,
                            exp |-> TokenLifetime]))

ForeignTokens ==
    { <<HeaderSegment, PayloadSegment, SignatureSegment>>,
      <<RawSegment, PayloadSegment>>,
      <<HeaderSegment, PayloadSegment, SignatureSegment, SignatureSegment>>,
      <<HeaderSegment, PayloadSegment, RawSegment>>,
      <<RawSegment>>,
      <<HeaderSegment, RawSegment, SignatureSegment>>,
      <<HeaderSegment, Encoded(MockSignature), SignatureSegment>>,
      <<HeaderSegment, Encoded(JSON_stringify(JsonNull)), SignatureSegment>>,
      <<HeaderSegment, Encoded(JSON_stringify([id |-> "1"])), SignatureSegment>> }

storageWrite(tok) ==
    /\ storage' = Envelope(DemoUser, TRUE, tok)
    /\ ret' = NoRet
    /\ UNCHANGED <<now, MOCK_USERS, user, isAuthenticated, token, pending, cacheVars, uiVars>>

\* The cookie "auth-storage" of a request: absent, not JSON, or an envelope.
NoCookie == [kind |-> "absent"]
BadCookie == [kind |-> "text"]
Cookie(tok) == [kind |-> "json", value |-> Envelope(DemoUser, TRUE, tok)]
Cookies == {NoCookie, BadCookie} \cup {Cookie(t) : t \in ForeignTokens \cup {NullToken}}
Paths == {"/auth/login", "/auth/register", "/movies/1"}

\* isAuthenticated as the middleware computes it for a public path
cookieAuthenticated(cookie, clock) ==
    IF cookie.kind = "absent" THEN Ok(FALSE)
    ELSE IF cookie.kind = "text" THEN Ok(FALSE)
    ELSE IF cookie.value.state.token # NullToken
    THEN isValidToken(cookie.value.state.token, clock)
    ELSE Ok(FALSE)

middleware(path, cookie) ==
    /\ ret' = IF path \in {"/auth/login", "/auth/register"}
              THEN LET a == cookieAuthenticated(cookie, now)
                   IN  IF a.threw
                       THEN [op |-> "middleware", cookie |-> cookie, threw |-> TRUE]
                       ELSE [op |-> "middleware", cookie |-> cookie, threw |-> FALSE,
                             response |-> IF a.value THEN "redirect" ELSE "next"]
              ELSE [op |-> "middleware", cookie |-> cookie, threw |-> FALSE,
                    response |-> "next"]
    /\ UNCHANGED <<now, authVars, cacheVars, uiVars>>

NextStorage ==
    \/ \E t \in ForeignTokens : storageWrite(t)
    \/ restart
    \/ checkAuth
    \/ logout
    \/ \E pa \in Paths, c \in Cookies : middleware(pa, c)
    \/ tick(AuthInstants)

SpecStorage == Init /\ [][NextStorage]_vars

(***************************************************************************)
(* Properties of the cached API helpers.                                   *)
(***************************************************************************)
Fresh(items, key, ttl, clock) ==
    key \in DOMAIN items /\ clock - items[key].timestamp < ttl

\* the step sent a request of helper op
Sent(op) ==
    /\ Len(inflight') = Len(inflight) + 1
    /\ inflight'[Len(inflight')].op = op

FailedAnswer(r) == r.via.kind \in {"status", "transport"}

Key(call) == toLowerCase(call.email)

\* the step is the continuation of the oldest waiting call of kind op
Resumed(op) ==
    /\ pending # <<>>
    /\ Head(pending).op = op
    /\ pending' = Tail(pending)
    /\ ret'.op = op

LoginSucceeds(users, email, password, clock) ==
    LET r == loginBody(users, email, password, clock)
    IN  ~r.threw /\ r.success /\ CheckAuthTrue(r.token, clock)

\* C1: login with the email of an account of the store, in any letter case,
\* and that account's password returns success, and checkAuth() is true
\* right after it.
C1_LoginWithCorrectPassword ==
    (/\ ret.op = "login"
     /\ Key(ret.call) \in DOMAIN MOCK_USERS
     /\ MOCK_USERS[Key(ret.call)].password = ret.call.password)
    => (/\ ~ret.threw
        /\ ret.success
        /\ isAuthenticated
        /\ CheckAuthTrue(token, now))

\* C2: a login that fails returns the same value whether or not its email
\* has an account: the failure just returned equals the failure of every
\* other failing login in the same state.
C2_FailedLoginSameResult ==
    (ret.op = "login" /\ ~ret.threw /\ ~ret.success)
    => \A e \in Emails, p \in Passwords :
          LET r == loginBody(MOCK_USERS, e, p, now)
          IN  (~r.threw /\ ~r.success)
              => (r.success = ret.success /\ r.message = ret.message)

\* a wrong password for an account has just been refused, and some other
\* email without an account is refused too
C2_Witness ==
    /\ ret.op = "login"
    /\ ~ret.threw
    /\ ~ret.success
    /\ Key(ret.call) \in DOMAIN MOCK_USERS
    /\ \E e \in Emails, p \in Passwords :
          /\ ~truthy(Lookup(MOCK_USERS, toLowerCase(e)))
          /\ ~loginBody(MOCK_USERS, e, p, now).success

\* C3: register for an email that has an account, up to letter case, returns
\* the duplicate failure and leaves the account as it was; afterwards login
\* with the account's password succeeds and login with the password of the
\* refused call fails.
C3_DuplicateRegister ==
    [][(Resumed("register") /\ Key(Head(pending)) \in DOMAIN MOCK_USERS)
       => LET c == Head(pending)
              old == MOCK_USERS[Key(c)]
          IN  /\ ~ret'.threw
              /\ ~ret'.success
              /\ ret'.message = "User already exists"
              /\ MOCK_USERS' = MOCK_USERS
              /\ LoginSucceeds(MOCK_USERS', c.email, old.password, now')
              /\ (c.password # old.password
                    => ~LoginSucceeds(MOCK_USERS', c.email, c.password, now'))]_vars

\* C4: register for an email without an account adds exactly one account,
\* under the lowercased email, with the given name and password, makes that
\* user the session with a token minted for it, and returns success;
\* checkAuth() is true right after it.
C4_RegisterNewEmail ==
    [][(Resumed("register") /\ Key(Head(pending)) \notin DOMAIN MOCK_USERS)
       => LET c == Head(pending)
          IN  /\ DOMAIN MOCK_USERS' = (DOMAIN MOCK_USERS) \cup {Key(c)}
              /\ \A k \in DOMAIN MOCK_USERS : MOCK_USERS'[k] = MOCK_USERS[k]
              /\ MOCK_USERS'[Key(c)].email = Key(c)
              /\ MOCK_USERS'[Key(c)].name = c.name
              /\ MOCK_USERS'[Key(c)].password = c.password
              /\ ~ret'.threw
              /\ ret'.success
              /\ isAuthenticated'
              /\ user' = [id |-> MOCK_USERS'[Key(c)].id, email |-> Key(c),
                          name |-> c.name]
              /\ CheckAuthTrue(token', now')]_vars

\* C5: logout leaves user null, token null and isAuthenticated false, so that
\* checkAuth() is false, whatever the state it is called in; a logout that
\* follows a logout changes nothing.
C5_Logout ==
    /\ [](ret.op = "logout"
            => (/\ user = NullUser
                /\ token = NullToken
                /\ ~isAuthenticated
                /\ ~CheckAuthTrue(token, now)
                /\ storage = Envelope(NullUser, FALSE, NullToken)))
    /\ [][(ret.op = "logout" /\ ret'.op = "logout")
           => UNCHANGED <<user, token, isAuthenticated, storage, MOCK_USERS>>]_vars

\* logout has just run in a session that was logged in
C5_Witness ==
    /\ ret.op = "logout"
    /\ ret.wasAuthenticated
    /\ user = NullUser
    /\ token = NullToken


(***************************************************************************)
(* Properties of token validation.                                         *)
(***************************************************************************)
\* the payload segment of tok decodes to an object with an exp member
Decodable(tok) ==
    /\ Len(tok) >= 2
    /\ tok[2].b64
    /\ tok[2].text.json
    /\ tok[2].text.value # JsonNull
    /\ "exp" \in DOMAIN tok[2].text.value

ExpOf(tok) == tok[2].text.value.exp

\* exactly three segments, each of them base64
WellFormed(tok) == Len(tok) = 3 /\ \A i \in 1..3 : tok[i].b64

\* C8: checkAuth() returns true iff the token held is well formed (exactly
\* three base64 segments) and its expiry is in the future.
C8_CheckAuthIffWellFormed ==
    ret.op = "checkAuth"
    => (/\ ~ret.result.threw
        /\ ret.result.value <=> (/\ token # NullToken
                                 /\ WellFormed(token)
                                 /\ Decodable(token)
                                 /\ ExpOf(token) * 1000 > now))

\* C9: a token minted by login or register validates true at every clock
\* value before exp * 1000 and false at every clock value from exp * 1000
\* on, and once it has validated false it never validates true again.
C9_MintedTokenExpiry ==
    /\ [](token # NullToken
            => (/\ Decodable(token)
                /\ ~isValidToken(token, now).threw
                /\ isValidToken(token, now).value <=> (now < ExpOf(token) * 1000)))
    /\ [][(token # NullToken /\ token' = token /\ ~isValidToken(token, now).value)
           => ~isValidToken(token', now').value]_vars

\* a minted token is held when the clock reads exactly exp * 1000
C9_Witness ==
    /\ token # NullToken
    /\ now = ExpOf(token) * 1000
    /\ ~isValidToken(token, now).value

\* C10: validation never raises: for a token without a dot, with a payload
\* segment that is not base64, not JSON, null or without exp, isValidToken
\* returns false, in checkAuth() and in the middleware, and checkAuth()
\* returns false when no token is held.
C10_ValidationNeverRaises ==
    /\ ret.op = "checkAuth"
         => (/\ ~ret.result.threw
             /\ (token = NullToken \/ ~Decodable(token)) => ~ret.result.value)
    /\ ret.op = "middleware"
         => (/\ ~ret.threw
             /\ (ret.cookie.kind = "json"
                   /\ ~Decodable(ret.cookie.value.state.token))
                 => ret.response = "next")
    /\ \A t \in ForeignTokens :
          ~Decodable(t) => isValidToken(t, now) = Ok(FALSE)

\* checkAuth() has just returned false for a held token that does not decode
C10_Witness ==
    /\ ret.op = "checkAuth"
    /\ token # NullToken
    /\ ~Decodable(token)
    /\ ret.result = Ok(FALSE)

(***************************************************************************)
(* Properties of the session's life cycle.                                 *)
(***************************************************************************)
\* the token held has an exp that the clock has reached
Expired(tok, clock) == Decodable(tok) /\ clock >= ExpOf(tok) * 1000

\* C11: when checkAuth() evaluates a held token whose exp the clock has
\* passed and finds it invalid, the session is destroyed: user and token are
\* null and isAuthenticated is false afterwards.
C11_ExpiryDetectedDestroysSession ==
    [][(/\ ret'.op = "checkAuth"
        /\ token # NullToken
        /\ Expired(token, now)
        /\ ~CheckAuthTrue(token, now))
       => (/\ user' = NullUser
           /\ token' = NullToken
           /\ ~isAuthenticated')]_vars

\* the credentials of a waiting login do not match an account
InvalidCredentials(users, call) ==
    \/ Key(call) \notin DOMAIN users
    \/ users[Key(call)].password # call.password

\* C12: login and register never raise: for every email, name and password
\* the promise resolves to a {success, message} value, with success false
\* for invalid credentials and for a duplicate registration.
C12_NeverRaises ==
    /\ [](ret.op \in {"login", "register"} => ~ret.threw)
    /\ [][(Resumed("login") /\ InvalidCredentials(MOCK_USERS, Head(pending)))
           => (~ret'.threw /\ ~ret'.success)]_vars
    /\ [][(Resumed("register") /\ Key(Head(pending)) \in DOMAIN MOCK_USERS)
           => (~ret'.threw /\ ~ret'.success)]_vars

(***************************************************************************)
(* Properties of the detail cache and of the cache keys.                   *)
(***************************************************************************)
DetailKeys == {movieCacheKey(id) : id \in ImdbIDs}

\* C13: getMovieDetails reads through the cache under a key made of the
\* identifier alone, with a window of 24 hours: it returns the stored record
\* and sends no request iff the entry is less than 24 hours old, and the
\* answer of a request overwrites the entry with the time of the answer.  An
\* entry that searchMovies serves is less than one hour old, so between one
\* hour and 24 hours a detail entry is served and a search entry is not.
C13_DetailsReadThrough ==
    /\ []((ret.op = "getMovieDetails" /\ ~ret.threw)
            => (/\ ret.key \in DetailKeys
                /\ Fresh(cache, ret.key, DetailsTTL, now)
                /\ cache[ret.key].data = ret.value))
    /\ [][(ret'.op = "getMovieDetails" /\ ret'.via = Immediate)
           => (/\ Fresh(cache, ret'.key, DetailsTTL, now)
               /\ inflight' = inflight
               /\ cache' = cache)]_vars
    /\ [][Sent("getMovieDetails")
           => (/\ inflight'[Len(inflight')].key \in DetailKeys
               /\ ~Fresh(cache, inflight'[Len(inflight')].key, DetailsTTL, now))]_vars
    /\ [][(ret'.op = "getMovieDetails" /\ ~ret'.threw /\ ret'.via # Immediate)
           => cache'[ret'.key] = [data |-> ret'.value, timestamp |-> now']]_vars
    /\ [][(ret'.op = "searchMovies" /\ ret'.via = Immediate)
           => now - cache[ret'.key].timestamp < SearchTTL]_vars

\* getMovieDetails has just returned, without a request, an entry that is an
\* hour old or more, while a search entry of the same age is no longer served
C13_Witness ==
    /\ ret.op = "getMovieDetails"
    /\ ~ret.threw
    /\ ret.via = Immediate
    /\ now - cache[ret.key].timestamp >= SearchTTL
    /\ \E k \in (DOMAIN cache) \ DetailKeys :
          /\ cache[k].timestamp = cache[ret.key].timestamp
          /\ ~servedFromCache(cache, k, SearchTTL, now)

\* the key of the query that a request's parameters describe
NormalizedKey(params) ==
    searchCacheKey(JsString(params.s), JsString(params.type), JsString(params.y))

\* C14: searchMovies builds the same cache key for an optional filter that is
\* undefined as for one that is the empty string, so a call without the
\* filter is served by the entry that the call with "" stored: every request
\* is sent under the key of its normalized parameters, and none is sent
\* while the entry of that key is less than an hour old.
C14_AbsentFilterSameKey ==
    [][Sent("searchMovies")
       => LET sent == inflight'[Len(inflight')]
          IN  /\ sent.key = NormalizedKey(sent.params)
              /\ ~Fresh(cache, NormalizedKey(sent.params), SearchTTL, now)]_vars

\* C15: the cache key is injective on normalized queries: requests sent
\* under one key are requests for one query, a term or filter that contains
\* ":" included, so an entry is never read or overwritten by a different
\* query; and no request of searchMovies shares its key with a request of
\* getMovieDetails.
C15_KeyInjective ==
    \A i, j \in DOMAIN inflight :
       inflight[i].key = inflight[j].key
       => (/\ inflight[i].op = inflight[j].op
           /\ inflight[i].params = inflight[j].params)

(***************************************************************************)
(* Properties of the persisted session.                                    *)
(***************************************************************************)
\* what rehydration reads: the stored envelope, or the initial state when
\* nothing is stored
Persisted ==
    IF storage = NoStorage THEN Envelope(NullUser, FALSE, NullToken) ELSE storage

\* C16: the envelope stored under "auth-storage" equals the session in
\* memory after every login, register and logout, and in every other state;
\* only those three calls write it, so a restart, which leaves the storage
\* alone, brings the session back to the value persisted last.
C16_StorageMirrorsSession ==
    /\ [](Persisted = Envelope(user, isAuthenticated, token))
    /\ [](ret.op \in {"login", "register", "logout"}
            => Persisted = Envelope(user, isAuthenticated, token))
    /\ []((ret.op \in {"login", "register"} /\ ~ret.threw /\ ret.success)
            => (storage = Envelope(user, TRUE, token) /\ isAuthenticated))
    /\ [](ret.op = "logout" => storage = Envelope(NullUser, FALSE, NullToken))
    /\ [][ret'.op \notin {"login", "register", "logout"} => storage' = storage]_vars

\* a registered user is logged in after a restart: the account object is
\* initial again, which only a restart brings about, and the session is the
\* one that was persisted
C16_Witness ==
    /\ isAuthenticated
    /\ user # NullUser
    /\ user.email \notin DOMAIN MOCK_USERS
    /\ storage = Envelope(user, TRUE, token)

(***************************************************************************)
(* Properties of the account store under overlapping calls.                *)
(***************************************************************************)
Succeeded(r) == ~r.threw /\ r.success

\* C17: the account store holds at most one account per case-folded email
\* under any interleaving of register calls: every account is stored under
\* its lowercased email and carries it; of two registers that overlap, for
\* emails equal up to letter case and without an account, exactly one
\* succeeds; and login finds the account whatever the letter case of the
\* email it is given.
C17_OneAccountPerEmail ==
    /\ [](\A k \in DOMAIN MOCK_USERS :
             /\ k = toLowerCase(k)
             /\ MOCK_USERS[k].email = k)
    /\ [][(/\ ret.op = "register"
           /\ (ret.threw \/ ret.success)
           /\ Resumed("register")
           /\ Key(Head(pending)) = Key(ret.call))
          => (Succeeded(ret) # Succeeded(ret'))]_vars
    /\ [][(/\ Resumed("login")
           /\ Key(Head(pending)) \in DOMAIN MOCK_USERS
           /\ MOCK_USERS[Key(Head(pending))].password = Head(pending).password)
          => (ret'.threw \/ ret'.success)]_vars

(***************************************************************************)
(* Properties of the session's state machine.                              *)
(***************************************************************************)
CacheOps == {"searchMovies", "getMovieDetails"}

\* C18: isAuthenticated becomes true only in the step in which a login or a
\* register returns success; a login or register that fails or raises,
\* checkAuth, logout and the cached API helpers never make it true.
C18_LoggedInOnlyBySuccess ==
    /\ [][(~isAuthenticated /\ isAuthenticated')
           => (ret'.op \in {"login", "register"} /\ Succeeded(ret'))]_vars
    /\ [][(ret'.op \in {"login", "register"} /\ ~Succeeded(ret'))
           => UNCHANGED <<user, isAuthenticated, token, storage>>]_vars
    /\ [][(ret'.op = "checkAuth" \/ ret'.op \in CacheOps \/ Sent("searchMovies")
             \/ Sent("getMovieDetails"))
           => UNCHANGED <<user, isAuthenticated, token, storage>>]_vars
    /\ [](ret.op = "logout" => ~isAuthenticated)

\* a login has just logged the user in, in a process whose cache holds an
\* entry written by an API helper
C18_Witness ==
    /\ ret.op = "login"
    /\ Succeeded(ret)
    /\ isAuthenticated
    /\ DOMAIN cache # {}

\* the payload that the token's second segment encodes
PayloadOf(tok) == tok[2].text.value

\* C19: in every state of the store the three fields agree: isAuthenticated
\* is true iff the token is non-null iff the user is non-null, and the
\* payload of a token that is held has the id, email and name of the user;
\* this holds in every state between the steps of login, register and logout
\* calls that overlap.
C19_FieldsAgree ==
    /\ isAuthenticated <=> token # NullToken
    /\ isAuthenticated <=> user # NullUser
    /\ token # NullToken
         => (/\ Decodable(token)
             /\ PayloadOf(token).id = user.id
             /\ PayloadOf(token).email = user.email
             /\ PayloadOf(token).name = user.name)

\* a call has just logged a user in while another call, started before it
\* returned, waits in its timer
C19_Witness ==
    /\ ret.op \in {"login", "register"}
    /\ Succeeded(ret)
    /\ pending # <<>>
    /\ token # NullToken
    /\ user # NullUser

(***************************************************************************)
(* Properties of overlapping calls of the API helpers.                     *)
(***************************************************************************)
\* a request of helper op under the key is in flight
InFlight(op, key) ==
    \E i \in DOMAIN inflight : inflight[i].op = op /\ inflight[i].key = key

\* C20: searchMovies calls for one key that overlap each miss the cache and
\* each send a request: a request in flight for the key does not keep a call
\* from sending its own.  A request leaves only by being answered, and its
\* call then returns or raises.  Every answered request overwrites the entry
\* with its payload and the time of the write, whatever the entry holds and
\* whichever request was sent first, so the entry is that of the last write.
C20_LastWriteWins ==
    /\ [][(Sent("searchMovies") /\ InFlight("searchMovies", inflight'[Len(inflight')].key))
           => ~Fresh(cache, inflight'[Len(inflight')].key, SearchTTL, now)]_vars
    /\ [][(ret'.op = "searchMovies" /\ ret'.via = Immediate)
           => Fresh(cache, ret'.key, SearchTTL, now)]_vars
    /\ [][Len(inflight') < Len(inflight)
           => (/\ Len(inflight') = Len(inflight) - 1
               /\ ret'.op \in CacheOps
               /\ ret'.via # Immediate)]_vars
    /\ [][(ret'.op = "searchMovies" /\ ret'.via # Immediate /\ ~ret'.threw)
           => (/\ cache'[ret'.key] = [data |-> ret'.value, timestamp |-> now']
               /\ \A k \in DOMAIN cache : k # ret'.key => cache'[k] = cache[k])]_vars

\* two calls for one query overlapped and each sent a request: one request
\* has just been answered and has stored its payload, and the other, sent
\* before that write for the same query, is still in flight and will
\* overwrite the entry
C20_Witness ==
    /\ ret.op = "searchMovies"
    /\ ret.via # Immediate
    /\ ~ret.threw
    /\ ret.key = searchCacheKey(JsString("a"), JsString("c"), JsString(""))
    /\ cache[ret.key] = [data |-> ret.value, timestamp |-> now]
    /\ InFlight("searchMovies", ret.key)

(***************************************************************************)
(* Properties of the accounts.                                             *)
(***************************************************************************)
\* C21: no two accounts of the store share an id, after any sequence of
\* registrations, each of which gives the new account the number of
\* accounts plus one.
C21_DistinctIds ==
    /\ [](\A j, k \in DOMAIN MOCK_USERS :
             j # k => MOCK_USERS[j].id # MOCK_USERS[k].id)
    /\ [][(Resumed("register") /\ Succeeded(ret'))
           => (/\ user'.id = ToString(Cardinality(DOMAIN MOCK_USERS) + 1)
               /\ \A k \in DOMAIN MOCK_USERS : MOCK_USERS[k].id # user'.id)]_vars

\* two registrations have succeeded: the store holds three accounts
C21_Witness ==
    /\ ret.op = "register"
    /\ Succeeded(ret)
    /\ Cardinality(DOMAIN MOCK_USERS) = 3

(***************************************************************************)
(* Properties of the components.                                           *)
(***************************************************************************)
\* C22: the submit handler of the login form never lets an exception out
\* and always ends with isLoading false, whether login returned success,
\* returned a failure or raised; after an exception the form shows the
\* generic message and not the text of the exception, and after a failure
\* it shows the message of the failure.
C22_SubmitHandler ==
    ret.op = "onSubmit"
    => (/\ ~ret.threw
        /\ ~form.isLoading
        /\ ret.login.threw
             => (/\ form.error = JsString(UnexpectedError)
                 /\ form.error # JsString(ret.login.error))
        /\ (~ret.login.threw /\ ~ret.login.success)
             => form.error = JsString(ret.login.message)
        /\ (~ret.login.threw /\ ret.login.success)
             => (form.error = NoError /\ ret.route = "/"))

\* the handler has just finished after a login that raised
C22_Witness ==
    /\ ret.op = "onSubmit"
    /\ ret.login.threw
    /\ ~form.isLoading
    /\ form.error = JsString(UnexpectedError)

(***************************************************************************)
(* Properties of calls of the store that overlap with logout.              *)
(***************************************************************************)
\* C23: logout is not undone by a call that started before it: a login or
\* register that was waiting in its timer when logout ran does not set the
\* session when it completes, so the session stays logged out.
C23_LogoutNotUndone ==
    [][(/\ ret.op = "logout"
        /\ pending # <<>>
        /\ (Resumed("login") \/ Resumed("register")))
       => (/\ ~isAuthenticated'
           /\ user' = NullUser
           /\ token' = NullToken)]_vars

(***************************************************************************)
(* Frame of the failing calls.                                             *)
(***************************************************************************)
\* C24: a login that fails (wrong password or unknown email) and a register
\* that fails (duplicate email) leave user, token, isAuthenticated, the
\* accounts and the persisted envelope as they were: a user who is logged
\* in stays logged in as the same user with the same token.
C24_FailureChangesNothing ==
    [][((Resumed("login") \/ Resumed("register")) /\ ~ret'.threw /\ ~ret'.success)
       => (/\ user' = user
           /\ token' = token
           /\ isAuthenticated' = isAuthenticated
           /\ MOCK_USERS' = MOCK_USERS
           /\ storage' = storage)]_vars

\* a register for an email that has an account has just failed while a user
\* is logged in
C24_Witness ==
    /\ ret.op = "register"
    /\ ~ret.threw
    /\ ~ret.success
    /\ isAuthenticated
    /\ token # NullToken

(***************************************************************************)
(* Properties of the entries of the cache.                                 *)
(***************************************************************************)
TTLOf(op) == IF op = "searchMovies" THEN SearchTTL ELSE DetailsTTL

\* C25: a hit does not modify the entry.  The cache changes only in the
\* step that stores the response of a request, which writes that one entry
\* with the time of the write; a read leaves every timestamp alone.  So a
\* payload returned from the cache was stored less than its ttl ago (one
\* hour for search, 24 hours for details), however often the key is read.
C25_HitLeavesEntry ==
    /\ [][(ret'.op \in CacheOps /\ ret'.via = Immediate) => cache' = cache]_vars
    /\ [][cache' # cache
           => (/\ ret'.op \in CacheOps
               /\ ret'.via # Immediate
               /\ ~ret'.threw
               /\ cache'[ret'.key] = [data |-> ret'.value, timestamp |-> now']
               /\ \A k \in DOMAIN cache : k # ret'.key => cache'[k] = cache[k])]_vars
    /\ []((ret.op \in CacheOps /\ ret.via = Immediate)
            => (/\ now - cache[ret.key].timestamp < TTLOf(ret.op)
                /\ cache[ret.key].timestamp <= now))
    /\ [][(ret.op \in CacheOps /\ ret.via = Immediate
             /\ ret'.op = ret.op /\ ret'.via = Immediate /\ ret'.key = ret.key)
           => cache'[ret'.key].timestamp = cache[ret.key].timestamp]_vars

\* the details of a movie have just been read from the cache 24 hours less
\* a millisecond after they were stored, and the entry still has the time of
\* the write
C25_Witness ==
    /\ ret.op = "getMovieDetails"
    /\ ret.via = Immediate
    /\ cache[ret.key].timestamp = 0
    /\ now = DetailsTTL - 1

(***************************************************************************)
(* The session and the accounts.                                           *)
(***************************************************************************)
\* C26: whenever the session is logged in, its user is the user of an
\* account of the store, with the same id and email, after any sequence of
\* login, register, logout and restart.
C26_SessionUserHasAccount ==
    isAuthenticated
    => (/\ user # NullUser
        /\ user.email \in DOMAIN MOCK_USERS
        /\ MOCK_USERS[user.email].id = user.id
        /\ MOCK_USERS[user.email].email = user.email)

(***************************************************************************)
(* Properties of replies that signal failure in their body.                *)
(***************************************************************************)
\* C27: a reply with Response: "False" in its body and a success status is
\* not stored, and no entry ever holds such a body, so that a later call
\* for the key inside the freshness window sends a request and is not
\* answered with the failure from the cache.
C27_FailureBodyNotCached ==
    /\ [](\A k \in DOMAIN cache : cache[k].data # ResponseFalse)
    /\ [][(ret'.op \in CacheOps /\ ret'.via # Immediate /\ ~ret'.threw
             /\ ret'.value = ResponseFalse)
           => cache' = cache]_vars
    /\ []((ret.op \in CacheOps /\ ret.via = Immediate) => ret.value # ResponseFalse)

(***************************************************************************)
(* Properties of the lifetime of a minted token.                           *)
(***************************************************************************)
\* C28: a token minted by login or register at clock value t carries
\* exp = floor(t / 1000) + 86400, and as long as it is the token held
\* checkAuth() is true at every clock value from t up to t + 24 hours - 1
\* second and false at every clock value of t + 24 hours or later.
C28_MintedTokenLifetime ==
    /\ [][\A op \in {"login", "register"} :
            (Resumed(op) /\ Succeeded(ret'))
            => (/\ Decodable(token')
                /\ ExpOf(token') = (now' \div 1000) + 86400
                /\ \A c \in ExpiryInstants :
                      /\ (now' <= c /\ c <= now' + Day - 1000)
                           => checkAuthBody(token', c) = Ok(TRUE)
                      /\ c >= now' + Day
                           => checkAuthBody(token', c) = Ok(FALSE))]_vars
    /\ []((ret.op = "checkAuth" /\ token # NullToken)
            => (/\ Decodable(token)
                /\ \A t \in ExpiryInstants :
                      (t <= now /\ ExpOf(token) = (t \div 1000) + 86400)
                      => (/\ now <= t + Day - 1000 => ret.result = Ok(TRUE)
                          /\ now >= t + Day => ret.result = Ok(FALSE))))

\* checkAuth() has just returned true one second before the 24 hours of the
\* token minted at clock 800 are over
C28_Witness ==
    /\ ret.op = "checkAuth"
    /\ token # NullToken
    /\ ExpOf(token) = (800 \div 1000) + 86400
    /\ now = 800 + Day - 1000
    /\ ret.result = Ok(TRUE)

\* checkAuth() has just returned false 24 hours after the token was minted
\* at clock 800
C28_WitnessExpired ==
    /\ ret.op = "checkAuth"
    /\ token # NullToken
    /\ ExpOf(token) = (800 \div 1000) + 86400
    /\ now = 800 + Day
    /\ ret.result = Ok(FALSE)

(***************************************************************************)
(* Properties of the helpers over a failing storage.                       *)
(***************************************************************************)
\* the network request of the call that has just ended failed
RequestFailed(r) == r.via # Immediate /\ r.via.kind # "ok"

TypedError(op) ==
    IF op = "searchMovies" THEN "Failed to fetch movies" ELSE "Failed to fetch movie details"

\* C29: searchMovies and getMovieDetails raise iff the network request
\* failed, and what they raise is the typed 'Failed to fetch ...' error: a
\* call that finds an entry it cannot read or parse sends a request as
\* after a miss, and a response whose write to the cache fails is returned.
C29_RaisesIffRequestFailed ==
    /\ []((ret.op \in CacheOps)
            => (/\ ret.threw <=> RequestFailed(ret)
                /\ ret.threw => ret.error = TypedError(ret.op)))
    /\ [][(ret'.op \in CacheOps /\ ret'.via = Immediate)
           => (ret'.key \in DOMAIN cache /\ cache[ret'.key] # Unparsable)]_vars
    /\ []((ret.op \in CacheOps /\ ret.via # Immediate /\ ret.via.kind = "ok")
            => ret = Returned(ret.op, ret.key, ret.via, ret.via.data))

(***************************************************************************)
(* Properties of the movie carousel.                                       *)
(***************************************************************************)
\* C30: whenever the movie list is non-empty and the component is past its
\* loading state, currentIndex is a number with
\* 0 <= currentIndex < featuredMovies.length, whatever the order of timer
\* ticks, nextSlide, prevSlide and the completion of the fetch was, a tick
\* before the completion included.
C30_IndexValid ==
    (~carousel.loading /\ Len(carousel.featuredMovies) > 0)
    => (/\ ~carousel.currentIndex.nan
        /\ carousel.currentIndex.value >= 0
        /\ carousel.currentIndex.value < Len(carousel.featuredMovies))

====
